---- MODULE Spec2Model ----
(***************************************************************************)
(* The job queue of the UltraSinger web frontend: the JobQueue component   *)
(* (jobs, isLoading, selectedFilter, the 5 second poll, the cancel, retry  *)
(* and delete handlers) and the ProgressCard it renders for every job of   *)
(* the filtered list (the card's push progress and what the card shows).   *)
(*                                                                         *)
(* JavaScript values: a number that is undefined is Undef (-1), a string   *)
(* that is undefined is UndefStr, an object that is null is Null.          *)
(* Percentages are held in halves of a percent (80 is 40%, 85 is 42.5%),   *)
(* so that Math.round has something to round.                              *)
(***************************************************************************)
EXTENDS Integers, Sequences, FiniteSets, Bags, TLC

\* ------------------------------------------------------------------ bounds
\* refreshJobs calls in flight that no command handler awaits
MaxPolls == 1
\* cancel / retry / delete handlers in flight
MaxCmds == 1
\* Notification.requestPermission() calls awaiting the user's answer
MaxPrompts == 2

\* ------------------------------------------------------------------ values
Undef == -1
UndefStr == "undefined"
Null == [null |-> TRUE]

JobOrder == <<"A", "B">>
JobIds == {JobOrder[i] : i \in DOMAIN JobOrder}

Statuses == {"queued", "processing", "completed", "failed", "cancelled"}
Terminal == {"completed", "failed", "cancelled"}

\* the `progress` object of a polled job
PP1 == [step |-> "separating", percentage |-> 80,
        message |-> "Separating vocals", elapsed_seconds |-> 30]
PP2 == [step |-> "separating", percentage |-> 85,
        message |-> "", elapsed_seconds |-> Undef]

\* the events of the push feed
EV1 == [step |-> "transcribing", percentage |-> 20,
        message |-> "Transcribing lyrics", elapsed_seconds |-> 35]
EV2 == [step |-> UndefStr, percentage |-> Undef,
        message |-> "", elapsed_seconds |-> 40]
PushEvents == {EV1, EV2}
PushedIds == {JobOrder[1]}

\* What the remote system reports for one job in a listJobs response. A
\* finished job may still carry the progress and queue position of its run
\* (the card reads props.job.progress?.elapsed_seconds in every status).
JobSnapshots ==
    {[status |-> "queued", queue_position |-> 1, progress |-> Null,
      error_message |-> UndefStr]}
    \cup {[status |-> "processing", queue_position |-> 0, progress |-> p,
           error_message |-> UndefStr] : p \in {PP1, PP2}}
    \cup {[status |-> "completed", queue_position |-> q[1], progress |-> q[2],
           error_message |-> UndefStr] : q \in {<<Undef, Null>>, <<0, PP2>>}}
    \cup {[status |-> "failed", queue_position |-> Undef, progress |-> Null,
           error_message |-> "boom"]}
    \cup {[status |-> "cancelled", queue_position |-> Undef, progress |-> Null,
           error_message |-> UndefStr]}

Absent == [absent |-> TRUE]

WithId(id, s) ==
    [job_id |-> id, status |-> s.status, queue_position |-> s.queue_position,
     progress |-> s.progress, error_message |-> s.error_message]

RECURSIVE ListOf(_, _)
ListOf(f, i) ==
    IF i > Len(JobOrder) THEN <<>>
    ELSE IF f[JobOrder[i]] = Absent THEN ListOf(f, i + 1)
    ELSE <<WithId(JobOrder[i], f[JobOrder[i]])>> \o ListOf(f, i + 1)

\* Job A is seen in every status; job B is a second entry of the list, a
\* job that had completed before the page was opened and for which the push
\* feed has nothing to send.
SnapshotsOf(id) ==
    IF id = JobOrder[1] THEN JobSnapshots
    ELSE {s \in JobSnapshots : s.status = "completed" /\ s.progress = Null}

\* the `jobs` arrays a listJobs response can carry
Responses ==
    {ListOf(f, 1) : f \in {g \in [JobIds -> JobSnapshots \cup {Absent}] :
                              \A id \in JobIds : g[id] \in SnapshotsOf(id) \cup {Absent}}}

\* ------------------------------------------------------------------ state
VARIABLES
    lifecycle,        \* "created", "mounted" or "unmounted" (JobQueue)
    jobs,             \* jobs.value
    isLoading,        \* isLoading.value
    selectedFilter,   \* selectedFilter.value
    refreshInterval,  \* TRUE while the interval set in onMounted is running
    polls,            \* refreshJobs calls in flight, awaited by no handler
    cmds,             \* bag of the command handlers in flight
    cards,            \* per job id: the ProgressCard and its push progress
    pushSincePoll,    \* per job id: the last push event its subscription
                      \*   received after the latest start of a poll, and
                      \*   whether a listJobs response was applied after it
    lastResponse,     \* the jobs of the last listJobs response received
    dropped,          \* the job ids the last step dropped from jobs.value
    recording,        \* whether the order of the requests is recorded
    requests,         \* when recording: the listJobs requests in flight in
                      \*   the order they were started, each with whether
                      \*   the response of a request started after it was
                      \*   applied already
    effect,           \* what the last step did at the boundary:
                      \*   console.error, alert(), confirm(), or a push
                      \*   event taken from the feed
    supported,        \* 'Notification' in window
    permission,       \* Notification.permission
    permissionGranted,\* the flag of utils/notifications.js
    prompts,          \* Notification.requestPermission() calls not answered
    grantedBefore,    \* some requestNotificationPermission call returned true
    last              \* the last call of a notification function and what
                      \*   it returned

vars == <<lifecycle, jobs, isLoading, selectedFilter, refreshInterval, polls,
          cmds, cards, pushSincePoll, lastResponse, dropped, recording, requests,
          effect, supported, permission, permissionGranted, prompts,
          grantedBefore, last>>

jobQueueVars == <<lifecycle, jobs, isLoading, selectedFilter, refreshInterval,
                  polls, cmds, cards, pushSincePoll, lastResponse, dropped,
                  recording, requests, effect>>
notificationVars == <<supported, permission, permissionGranted, prompts,
                      grantedBefore, last>>

NoCard == [mounted |-> FALSE]
Card(p) == [mounted |-> TRUE, progress |-> p]
None == "none"
LoadFailed == "console.error: Failed to load jobs:"
Declined == "confirm: declined"
Accepted == "confirm: accepted"
Pushed == "push: progress event"
Received(event) == [event |-> event, polledAfter |-> FALSE]

\* ------------------------------------------------------------------ JobQueue
Ids(list) == {list[i].job_id : i \in DOMAIN list}
Tracked == Ids(jobs)
JobOf(list, id) == list[CHOOSE i \in DOMAIN list : list[i].job_id = id]

CountStatus(list, s) == Cardinality({i \in DOMAIN list : list[i].status = s})

\* counts[job.status]++ for every status that is a key of counts ("all" is
\* one of the keys)
jobCounts(list) ==
    [all |-> Len(list) + CountStatus(list, "all"),
     queued |-> CountStatus(list, "queued"),
     processing |-> CountStatus(list, "processing"),
     completed |-> CountStatus(list, "completed"),
     failed |-> CountStatus(list, "failed"),
     cancelled |-> CountStatus(list, "cancelled")]

FilterValues == {"all", "processing", "completed", "failed", "cancelled"}

\* mutant: "Active" counts the processing jobs only
statusFiltersProcessingOnly(list) ==
    [all |-> jobCounts(list).all,
     processing |-> jobCounts(list).processing,
     completed |-> jobCounts(list).completed,
     failed |-> jobCounts(list).failed,
     cancelled |-> jobCounts(list).cancelled]

statusFilters(list) ==
    [all |-> jobCounts(list).all,
     processing |-> jobCounts(list).queued + jobCounts(list).processing,
     completed |-> jobCounts(list).completed,
     failed |-> jobCounts(list).failed,
     cancelled |-> jobCounts(list).cancelled]

filteredJobs(list, filter) ==
    IF filter = "all" THEN list
    ELSE IF filter = "processing"
    THEN LET active(job) == job.status = "queued" \/ job.status = "processing"
         IN  SelectSeq(list, active)
    ELSE LET same(job) == job.status = filter
         IN  SelectSeq(list, same)

\* The cards after a render: one card per job of the filtered list, keyed by
\* job_id; a card that stays keeps its state, a new card starts without push
\* progress, a card whose job left the list is unmounted.
Render(list, filter, life, old) ==
    [id \in JobIds |->
        IF life = "mounted" /\ id \in Ids(filteredJobs(list, filter))
        THEN IF old[id].mounted THEN old[id] ELSE Card(Null)
        ELSE NoCard]

\* A subscription that is closed has received nothing.
Forget(since, newCards) ==
    [id \in JobIds |-> IF newCards[id].mounted THEN since[id] ELSE Null]

\* A listJobs response is applied: it is later than the events held.
Polled(since) ==
    [id \in JobIds |->
        IF since[id] = Null THEN Null
        ELSE [event |-> since[id].event, polledAfter |-> TRUE]]

\* ------------------------------------------------------------------ ProgressCard
Truthy(s) == s # UndefStr /\ s # ""
MathRound(h) == (h + 1) \div 2

PctOf(p) == IF p = Null THEN Undef ELSE p.percentage
MsgOf(p) == IF p = Null THEN UndefStr ELSE p.message
StepOf(p) == IF p = Null THEN UndefStr ELSE p.step
ElapsedOf(p) == IF p = Null THEN Undef ELSE p.elapsed_seconds

queueMessage(job) ==
    IF job.queue_position = Undef THEN "null"
    ELSE IF job.queue_position = 0 THEN "Currently processing"
    ELSE "Position in queue"

currentStepMessage(job, progress) ==
    IF Truthy(MsgOf(progress)) THEN MsgOf(progress)
    ELSE IF Truthy(MsgOf(job.progress)) THEN MsgOf(job.progress)
    ELSE "Initializing..."

\* mutant: the polled percentage is preferred to the pushed one
progressPercentagePollFirst(job, progress) ==
    IF PctOf(job.progress) # Undef THEN MathRound(PctOf(job.progress))
    ELSE IF PctOf(progress) # Undef THEN MathRound(PctOf(progress))
    ELSE 0

\* mutant: the larger of the pushed and the polled percentage is shown
progressPercentageMax(job, progress) ==
    LET pushed == IF PctOf(progress) # Undef THEN MathRound(PctOf(progress)) ELSE 0
        polled == IF PctOf(job.progress) # Undef
                  THEN MathRound(PctOf(job.progress)) ELSE 0
    IN  IF pushed >= polled THEN pushed ELSE polled

progressPercentage(job, progress) ==
    IF PctOf(progress) # Undef THEN MathRound(PctOf(progress))
    ELSE IF PctOf(job.progress) # Undef THEN MathRound(PctOf(job.progress))
    ELSE 0

\* the step keys of the card, in the order of the `steps` array
steps == <<"downloading", "separating", "transcribing", "pitching", "generating">>

\* Array.prototype.findIndex on the keys, 0-based, -1 when none matches
findIndex(keys, key) ==
    IF \E i \in DOMAIN keys : keys[i] = key
    THEN (CHOOSE i \in DOMAIN keys :
              keys[i] = key /\ \A j \in DOMAIN keys : keys[j] = key => i <= j) - 1
    ELSE -1

\* mutant: the current step itself counts as completed
getStepStatusInclusive(job, progress, stepKey) ==
    LET currentStep == IF Truthy(StepOf(progress)) THEN StepOf(progress)
                       ELSE StepOf(job.progress)
        stepIndex == findIndex(steps, stepKey)
        currentIndex == findIndex(steps, currentStep)
    IN  IF currentIndex = -1 THEN "pending"
        ELSE IF stepIndex <= currentIndex THEN "completed"
        ELSE "pending"

getStepStatus(job, progress, stepKey) ==
    LET currentStep == IF Truthy(StepOf(progress)) THEN StepOf(progress)
                       ELSE StepOf(job.progress)
        stepIndex == findIndex(steps, stepKey)
        currentIndex == findIndex(steps, currentStep)
    IN  IF currentIndex = -1 THEN "pending"
        ELSE IF stepIndex < currentIndex THEN "completed"
        ELSE IF stepIndex = currentIndex THEN "active"
        ELSE "pending"

\* a number used as a condition: undefined and 0 are falsy
TruthyNum(n) == n # Undef /\ n # 0

\* props.job.elapsed_seconds: the jobs of the responses modelled carry none
JobElapsed(job) == Undef

\* the seconds the card hands to formatDuration, Undef when it shows no time
elapsedTime(job, progress) ==
    LET seconds == IF TruthyNum(ElapsedOf(progress)) THEN ElapsedOf(progress)
                   ELSE IF TruthyNum(ElapsedOf(job.progress))
                   THEN ElapsedOf(job.progress)
                   ELSE JobElapsed(job)
    IN  IF TruthyNum(seconds) THEN seconds ELSE Undef

\* the step indicators are rendered for a processing job only
StepIndicatorsShown(job) == job.status = "processing"

\* mutants: a button without its v-if
CancelButtonAlways(job) == TRUE
RetryButtonAlways(job) == TRUE

ProgressBarShown(job) == job.status = "processing" \/ job.status = "queued"
CancelButtonShown(job) == job.status = "processing" \/ job.status = "queued"
RetryButtonShown(job) == job.status = "failed" \/ job.status = "cancelled"
DeleteButtonShown(job) == TRUE

\* the push subscription of a card: the fields an event carries overwrite the
\* stored ones, the fields it lacks are left as they were
Pick(new, old, undef) == IF new # undef THEN new ELSE old
applySnapshot(stored, event) ==
    IF stored = Null THEN event
    ELSE [step |-> Pick(event.step, stored.step, UndefStr),
          percentage |-> Pick(event.percentage, stored.percentage, Undef),
          message |-> Pick(event.message, stored.message, UndefStr),
          elapsed_seconds |->
              Pick(event.elapsed_seconds, stored.elapsed_seconds, Undef)]

\* ------------------------------------------------------------------ Init
Created ==
    /\ lifecycle = "created"
    /\ jobs = <<>>
    /\ isLoading = FALSE
    /\ selectedFilter = "all"
    /\ refreshInterval = FALSE
    /\ polls = 0
    /\ cmds = EmptyBag
    /\ cards = [id \in JobIds |-> NoCard]
    /\ pushSincePoll = [id \in JobIds |-> Null]
    /\ lastResponse = <<>>
    /\ dropped = {}
    /\ requests = <<>>
    /\ effect = None

\* utils/notifications.js when the module is loaded
NoCall == [call |-> "none", result |-> Null]
Loaded ==
    /\ permissionGranted = FALSE
    /\ prompts = 0
    /\ grantedBefore = FALSE
    /\ last = NoCall

Init ==
    /\ Created /\ recording = FALSE
    /\ Loaded /\ supported = TRUE /\ permission = "default"

Quiet == effect' = None /\ dropped' = {}

\* a refreshJobs call awaited by no handler, as a request in flight
PollRequest == [kind |-> "poll", job |-> "", phase |-> "refresh"]

\* listJobs() is called: the request is the last one started
Sent(request) ==
    /\ requests' = IF recording
                   THEN Append(requests, [request |-> request, overtaken |-> FALSE])
                   ELSE requests
    /\ UNCHANGED <<recording, notificationVars>>

\* the i-th request in flight ends without a response
Removed(reqs, i) == SubSeq(reqs, 1, i - 1) \o SubSeq(reqs, i + 1, Len(reqs))

\* the response of the i-th request in flight is applied: the requests
\* started before it are overtaken
Applied(reqs, i) ==
    Removed([j \in DOMAIN reqs |->
                 IF j < i THEN [reqs[j] EXCEPT !.overtaken = TRUE] ELSE reqs[j]], i)

\* listJobs() of a request in flight returns (applied) or throws
Returned(request, applied) ==
    /\ IF recording
       THEN \E i \in DOMAIN requests :
                /\ requests[i].request = request
                /\ requests' = IF applied THEN Applied(requests, i)
                                ELSE Removed(requests, i)
       ELSE UNCHANGED requests
    /\ UNCHANGED <<recording, notificationVars>>

\* ------------------------------------------------------------------ refreshJobs
\* refreshJobs up to its await: isLoading is set and the request leaves
refreshJobsStart ==
    /\ isLoading' = TRUE
    /\ pushSincePoll' = [id \in JobIds |-> Null]

\* mutant: the response is merged into the list instead of replacing it
refreshJobsKeepsOld(response) ==
    LET gone(job) == job.job_id \notin Ids(response)
    IN  response \o SelectSeq(jobs, gone)

\* the response arrived: jobs.value = response.jobs, then finally
refreshJobsAssign(response) == response

refreshJobsResolved(response, filter) ==
    /\ jobs' = refreshJobsAssign(response)
    /\ isLoading' = FALSE
    /\ cards' = Render(jobs', filter, lifecycle, cards)
    /\ pushSincePoll' = Forget(Polled(pushSincePoll), cards')
    /\ lastResponse' = response
    /\ dropped' = Tracked \ Ids(jobs')
    /\ effect' = None

\* mutant: a failed poll empties the list
refreshJobsCatchClears(list) == <<>>

\* listJobs threw: the catch only logs with console.error, then finally
refreshJobsCatch(list) == list

refreshJobsRejected(filter) ==
    /\ jobs' = refreshJobsCatch(jobs)
    /\ isLoading' = FALSE
    /\ cards' = Render(jobs', filter, lifecycle, cards)
    /\ pushSincePoll' = Forget(pushSincePoll, cards')
    /\ dropped' = Tracked \ Ids(jobs')
    /\ effect' = LoadFailed
    /\ UNCHANGED lastResponse

onMounted ==
    /\ lifecycle = "created"
    /\ lifecycle' = "mounted"
    /\ refreshJobsStart
    /\ polls' = polls + 1
    /\ refreshInterval' = TRUE
    /\ Quiet
    /\ UNCHANGED <<jobs, selectedFilter, cmds, cards, lastResponse>>
    /\ Sent(PollRequest)

\* the interval fires
Tick ==
    /\ refreshInterval
    /\ polls < MaxPolls
    /\ refreshJobsStart
    /\ polls' = polls + 1
    /\ Quiet
    /\ UNCHANGED <<lifecycle, jobs, selectedFilter, refreshInterval, cmds, cards,
                   lastResponse>>
    /\ Sent(PollRequest)

\* the refresh button, disabled while isLoading
ClickRefresh ==
    /\ lifecycle = "mounted"
    /\ ~isLoading
    /\ polls < MaxPolls
    /\ refreshJobsStart
    /\ polls' = polls + 1
    /\ Quiet
    /\ UNCHANGED <<lifecycle, jobs, selectedFilter, refreshInterval, cmds, cards,
                   lastResponse>>
    /\ Sent(PollRequest)

PollResolved(response) ==
    /\ polls > 0
    /\ polls' = polls - 1
    /\ refreshJobsResolved(response, selectedFilter)
    /\ UNCHANGED <<lifecycle, selectedFilter, refreshInterval, cmds>>
    /\ Returned(PollRequest, TRUE)

PollRejected ==
    /\ polls > 0
    /\ polls' = polls - 1
    /\ refreshJobsRejected(selectedFilter)
    /\ UNCHANGED <<lifecycle, selectedFilter, refreshInterval, cmds>>
    /\ Returned(PollRequest, FALSE)

onUnmounted ==
    /\ lifecycle = "mounted"
    /\ lifecycle' = "unmounted"
    /\ refreshInterval' = FALSE
    /\ cards' = Render(jobs, selectedFilter, lifecycle', cards)
    /\ pushSincePoll' = Forget(pushSincePoll, cards')
    /\ Quiet
    /\ UNCHANGED <<jobs, isLoading, selectedFilter, polls, cmds, lastResponse, recording, requests,
                   notificationVars>>

\* a click on a status filter tab
SelectFilter(value) ==
    /\ lifecycle = "mounted"
    /\ selectedFilter' = value
    /\ cards' = Render(jobs, selectedFilter', lifecycle, cards)
    /\ pushSincePoll' = Forget(pushSincePoll, cards')
    /\ Quiet
    /\ UNCHANGED <<lifecycle, jobs, isLoading, refreshInterval, polls, cmds,
                   lastResponse, recording, requests,
                   notificationVars>>

\* ------------------------------------------------------------------ push feed
\* mutant: the card marks its job as processing when an event arrives
cardMarksProcessing(id) ==
    /\ jobs' = [i \in DOMAIN jobs |->
                   IF jobs[i].job_id = id
                   THEN [jobs[i] EXCEPT !.status = "processing",
                                        !.queue_position = 0]
                   ELSE jobs[i]]
    /\ UNCHANGED <<lifecycle, isLoading, selectedFilter, refreshInterval,
                   polls, cmds, lastResponse, recording, requests,
                   notificationVars>>

\* the card takes only the `progress` ref from useWebSocket: props.job is
\* read, never written, and the card emits nothing on an event
cardKeepsProps(id) ==
    UNCHANGED <<lifecycle, jobs, isLoading, selectedFilter, refreshInterval,
                polls, cmds, lastResponse, recording, requests,
                   notificationVars>>

\* an event arrives on the subscription of the card of job id
PushEvent(id, event) ==
    /\ cards[id].mounted
    /\ cards' = [cards EXCEPT ![id] = Card(applySnapshot(cards[id].progress, event))]
    /\ pushSincePoll' = [pushSincePoll EXCEPT ![id] = Received(event)]
    /\ effect' = Pushed
    /\ dropped' = {}
    /\ cardKeepsProps(id)

\* ------------------------------------------------------------------ commands
CmdKinds == {"cancel", "retry", "delete"}
\* a handler in flight: awaiting the remote command ("remote") or awaiting
\* the refreshJobs that follows it ("refresh")
Cmd(kind, id, phase) == [kind |-> kind, job |-> id, phase |-> phase]
One(c) == SetToBag({c})
InFlight == BagToSet(cmds)

\* handleCancel up to its first await: cancelJob(jobId) leaves
handleCancel(id) ==
    /\ cmds' = cmds (+) One(Cmd("cancel", id, "remote"))
    /\ Quiet
    /\ UNCHANGED <<lifecycle, jobs, isLoading, selectedFilter, refreshInterval,
                   polls, cards, pushSincePoll, lastResponse, recording, requests,
                   notificationVars>>

\* handleRetry up to its first await: retryJob(jobId) leaves
handleRetry(id) ==
    /\ cmds' = cmds (+) One(Cmd("retry", id, "remote"))
    /\ Quiet
    /\ UNCHANGED <<lifecycle, jobs, isLoading, selectedFilter, refreshInterval,
                   polls, cards, pushSincePoll, lastResponse, recording, requests,
                   notificationVars>>

\* mutant: the answer of confirm() is ignored
handleDeleteAnyway(id) ==
    /\ BagCardinality(cmds) < MaxCmds
    /\ cmds' = cmds (+) One(Cmd("delete", id, "remote"))
    /\ effect' = Declined
    /\ dropped' = {}
    /\ UNCHANGED <<lifecycle, jobs, isLoading, selectedFilter, refreshInterval,
                   polls, cards, pushSincePoll, lastResponse, recording, requests,
                   notificationVars>>

\* handleDelete when confirm() is declined: return
handleDeleteDeclined(id) ==
    /\ effect' = Declined
    /\ dropped' = {}
    /\ UNCHANGED <<lifecycle, jobs, isLoading, selectedFilter, refreshInterval,
                   polls, cmds, cards, pushSincePoll, lastResponse, recording, requests,
                   notificationVars>>

\* handleDelete up to its first await: confirm(), then deleteJob(jobId) leaves
handleDelete(id, answer) ==
    IF answer
    THEN /\ BagCardinality(cmds) < MaxCmds
         /\ cmds' = cmds (+) One(Cmd("delete", id, "remote"))
         /\ effect' = Accepted
         /\ dropped' = {}
         /\ UNCHANGED <<lifecycle, jobs, isLoading, selectedFilter,
                        refreshInterval, polls, cards, pushSincePoll,
                        lastResponse, recording, requests,
                   notificationVars>>
    ELSE handleDeleteDeclined(id)

\* the buttons of the card of job id
ClickCancel(id) ==
    /\ cards[id].mounted
    /\ CancelButtonShown(JobOf(jobs, id))
    /\ BagCardinality(cmds) < MaxCmds
    /\ handleCancel(id)

ClickRetry(id) ==
    /\ cards[id].mounted
    /\ RetryButtonShown(JobOf(jobs, id))
    /\ BagCardinality(cmds) < MaxCmds
    /\ handleRetry(id)

ClickDelete(id, answer) ==
    /\ cards[id].mounted
    /\ DeleteButtonShown(JobOf(jobs, id))
    /\ handleDelete(id, answer)

\* mutant: a successful delete removes the record itself and polls nothing
CommandResolvedRemoves(c) ==
    /\ c \in InFlight /\ c.phase = "remote"
    /\ cmds' = (cmds (-) One(c)) (+) One(Cmd(c.kind, c.job, "refresh"))
    /\ LET other(job) == ~(c.kind = "delete" /\ job.job_id = c.job)
       IN  jobs' = SelectSeq(jobs, other)
    /\ cards' = Render(jobs', selectedFilter, lifecycle, cards)
    /\ pushSincePoll' = Forget(pushSincePoll, cards')
    /\ dropped' = Tracked \ Ids(jobs')
    /\ effect' = None
    /\ UNCHANGED <<lifecycle, isLoading, selectedFilter, refreshInterval, polls,
                   lastResponse>>
    /\ Sent(Cmd(c.kind, c.job, "refresh"))

\* mutant: a successful command ends its handler without a refresh
CommandResolvedSkipsRefresh(c) ==
    /\ c \in InFlight /\ c.phase = "remote"
    /\ cmds' = cmds (-) One(c)
    /\ Quiet
    /\ UNCHANGED <<lifecycle, jobs, isLoading, selectedFilter, refreshInterval,
                   polls, cards, pushSincePoll, lastResponse, recording, requests,
                   notificationVars>>

\* the remote command succeeded: the handler goes on to await refreshJobs()
CommandResolved(c) ==
    /\ c \in InFlight /\ c.phase = "remote"
    /\ cmds' = (cmds (-) One(c)) (+) One(Cmd(c.kind, c.job, "refresh"))
    /\ refreshJobsStart
    /\ Quiet
    /\ UNCHANGED <<lifecycle, jobs, selectedFilter, refreshInterval, polls, cards,
                   lastResponse>>
    /\ Sent(Cmd(c.kind, c.job, "refresh"))

CatchAlert(kind) ==
    CASE kind = "cancel" -> "alert: Failed to cancel job"
      [] kind = "retry" -> "alert: Failed to retry job: "
      [] kind = "delete" -> "alert: Failed to delete job"

\* mutant: the catch also forces a refresh
CommandRejectedRefreshes(c) ==
    /\ c \in InFlight /\ c.phase = "remote"
    /\ cmds' = (cmds (-) One(c)) (+) One(Cmd(c.kind, c.job, "refresh"))
    /\ refreshJobsStart
    /\ effect' = CatchAlert(c.kind)
    /\ dropped' = {}
    /\ UNCHANGED <<lifecycle, jobs, selectedFilter, refreshInterval, polls, cards,
                   lastResponse>>
    /\ Sent(Cmd(c.kind, c.job, "refresh"))

\* the remote command threw: the handler's catch
CommandRejected(c) ==
    /\ c \in InFlight /\ c.phase = "remote"
    /\ cmds' = cmds (-) One(c)
    /\ effect' = CatchAlert(c.kind)
    /\ dropped' = {}
    /\ UNCHANGED <<lifecycle, jobs, isLoading, selectedFilter, refreshInterval,
                   polls, cards, pushSincePoll, lastResponse, recording, requests,
                   notificationVars>>

\* what the handler does after its refreshJobs() returned: handleRetry
\* switches to the "Active" filter, the others do nothing more
AfterRefresh(kind, filter) == IF kind = "retry" THEN "processing" ELSE filter

\* the awaited refreshJobs got its response; the list is rendered when
\* jobs.value is assigned, and again when the handler changes the filter.
\* The request of a delete handler left after deleteJob had succeeded, so
\* its response does not list the deleted job.
RefreshResolved(c, response) ==
    /\ c \in InFlight /\ c.phase = "refresh"
    /\ c.kind = "delete" => c.job \notin Ids(response)
    /\ cmds' = cmds (-) One(c)
    /\ jobs' = refreshJobsAssign(response)
    /\ isLoading' = FALSE
    /\ selectedFilter' = AfterRefresh(c.kind, selectedFilter)
    /\ LET shown == Render(jobs', selectedFilter, lifecycle, cards)
       IN  /\ cards' = Render(jobs', selectedFilter', lifecycle, shown)
           /\ pushSincePoll' =
                  Forget(Forget(Polled(pushSincePoll), shown), cards')
    /\ lastResponse' = response
    /\ dropped' = Tracked \ Ids(jobs')
    /\ effect' = None
    /\ UNCHANGED <<lifecycle, refreshInterval, polls>>
    /\ Returned(c, TRUE)

\* mutant: the failure of the awaited refreshJobs reaches the handler's catch
RefreshRejectedThrows(c) ==
    /\ c \in InFlight /\ c.phase = "refresh"
    /\ cmds' = cmds (-) One(c)
    /\ isLoading' = FALSE
    /\ effect' = CatchAlert(c.kind)
    /\ dropped' = {}
    /\ UNCHANGED <<lifecycle, jobs, selectedFilter, refreshInterval, polls, cards,
                   pushSincePoll, lastResponse>>
    /\ Returned(c, FALSE)

\* the awaited refreshJobs failed: it catches the error itself and returns
RefreshRejected(c) ==
    /\ c \in InFlight /\ c.phase = "refresh"
    /\ cmds' = cmds (-) One(c)
    /\ jobs' = refreshJobsCatch(jobs)
    /\ isLoading' = FALSE
    /\ selectedFilter' = AfterRefresh(c.kind, selectedFilter)
    /\ LET shown == Render(jobs', selectedFilter, lifecycle, cards)
       IN  /\ cards' = Render(jobs', selectedFilter', lifecycle, shown)
           /\ pushSincePoll' = Forget(Forget(pushSincePoll, shown), cards')
    /\ dropped' = Tracked \ Ids(jobs')
    /\ effect' = LoadFailed
    /\ UNCHANGED <<lifecycle, refreshInterval, polls, lastResponse>>
    /\ Returned(c, FALSE)

CmdRecords ==
    {Cmd(k, id, ph) : k \in CmdKinds, id \in JobIds, ph \in {"remote", "refresh"}}

Next ==
    \/ onMounted
    \/ Tick
    \/ ClickRefresh
    \/ \E response \in Responses : PollResolved(response)
    \/ PollRejected
    \/ onUnmounted
    \/ \E value \in FilterValues : SelectFilter(value)
    \/ \E id \in PushedIds, event \in PushEvents : PushEvent(id, event)
    \/ \E id \in JobIds : ClickCancel(id)
    \/ \E id \in JobIds : ClickRetry(id)
    \/ \E id \in JobIds, answer \in BOOLEAN : ClickDelete(id, answer)
    \/ \E c \in CmdRecords : CommandResolved(c)
    \/ \E c \in CmdRecords : CommandRejected(c)
    \/ \E c \in CmdRecords, response \in Responses : RefreshResolved(c, response)
    \/ \E c \in CmdRecords : RefreshRejected(c)

Spec == Init /\ [][Next]_vars

\* the same program, with the order of its listJobs requests recorded
InitRecording ==
    /\ Created /\ recording = TRUE
    /\ Loaded /\ supported = TRUE /\ permission = "default"
SpecRecording == InitRecording /\ [][Next]_vars

\* ------------------------------------------------------------------ notifications
Permissions == {"default", "granted", "denied"}
Returns(call, result) == [call |-> call, result |-> result]

\* requestNotificationPermission up to its return or its await
requestNotificationPermission ==
    /\ IF ~supported
       THEN /\ last' = Returns("requestNotificationPermission", FALSE)
            /\ UNCHANGED <<permissionGranted, prompts, grantedBefore>>
       ELSE IF permission = "granted"
       THEN /\ permissionGranted' = TRUE
            /\ grantedBefore' = TRUE
            /\ last' = Returns("requestNotificationPermission", TRUE)
            /\ UNCHANGED prompts
       ELSE IF permission # "denied"
       THEN /\ prompts < MaxPrompts
            /\ prompts' = prompts + 1
            /\ last' = NoCall
            /\ UNCHANGED <<permissionGranted, grantedBefore>>
       ELSE /\ last' = Returns("requestNotificationPermission", FALSE)
            /\ UNCHANGED <<permissionGranted, prompts, grantedBefore>>
    /\ UNCHANGED <<supported, permission, jobQueueVars>>

\* the user answered the prompt: await Notification.requestPermission()
\* returns the answer, which is the permission from now on
requestPermissionResolved(answer) ==
    /\ prompts > 0
    /\ prompts' = prompts - 1
    /\ permission' = answer
    /\ permissionGranted' = (answer = "granted")
    /\ grantedBefore' = (grantedBefore \/ permissionGranted')
    /\ last' = Returns("requestNotificationPermission", permissionGranted')
    /\ UNCHANGED <<supported, jobQueueVars>>

\* the user changes the permission of the site in the browser
PermissionChanged(value) ==
    /\ supported
    /\ permission # value
    /\ permission' = value
    /\ last' = NoCall
    /\ UNCHANGED <<supported, permissionGranted, prompts, grantedBefore,
                   jobQueueVars>>

\* mutant: only the flag is looked at
showNotificationFlagOnly(title, options) ==
    IF ~permissionGranted THEN Null
    ELSE [title |-> title, icon |-> "/icon.png", body |-> options.body,
          tag |-> options.tag]

\* what showNotification returns: null, or the Notification it created
showNotification(title, options) ==
    IF ~permissionGranted \/ permission # "granted" THEN Null
    ELSE [title |-> title, icon |-> "/icon.png", body |-> options.body,
          tag |-> options.tag]

notifyJobComplete(jobTitle, isSuccess) ==
    LET title == IF isSuccess THEN "Job Completed!" ELSE "Job Failed"
        body == IF isSuccess
                THEN <<jobTitle, " has been processed successfully">>
                ELSE <<jobTitle, " processing failed">>
    IN  showNotification(title, [body |-> body, tag |-> "job-complete"])

NoOptions == [body |-> <<>>, tag |-> UndefStr]

CallShowNotification(title) ==
    /\ last' = Returns("showNotification", showNotification(title, NoOptions))
    /\ UNCHANGED <<supported, permission, permissionGranted, prompts,
                   grantedBefore, jobQueueVars>>

CallNotifyJobComplete(jobTitle, isSuccess) ==
    /\ last' = Returns("notifyJobComplete", notifyJobComplete(jobTitle, isSuccess))
    /\ UNCHANGED <<supported, permission, permissionGranted, prompts,
                   grantedBefore, jobQueueVars>>

\* the browser the module is loaded in
InitNotifications ==
    /\ Created /\ recording = FALSE
    /\ Loaded
    /\ supported \in BOOLEAN
    /\ permission \in IF supported THEN Permissions ELSE {"default"}

NextNotifications ==
    \/ requestNotificationPermission
    \/ \E answer \in Permissions : requestPermissionResolved(answer)
    \/ \E value \in Permissions : PermissionChanged(value)
    \/ \E title \in {"Upload finished", "Queue empty"} : CallShowNotification(title)
    \/ \E jobTitle \in {"Song", "Duet"}, isSuccess \in BOOLEAN :
           CallNotifyJobComplete(jobTitle, isSuccess)

SpecNotifications == InitNotifications /\ [][NextNotifications]_vars

\* ------------------------------------------------------------------ claims
ShownPercentage(id) == progressPercentage(JobOf(jobs, id), cards[id].progress)
ShownMessage(id) == currentStepMessage(JobOf(jobs, id), cards[id].progress)
NoPollInFlight == polls = 0 /\ \A c \in InFlight : c.phase # "refresh"
Issued(c) == CopiesIn(c, cmds') > CopiesIn(c, cmds)
Left(c) == CopiesIn(c, cmds') < CopiesIn(c, cmds)
Alerts == {CatchAlert(kind) : kind \in CmdKinds}

\* C1: once every poll has returned, the progress a job shows (percentage and
\* message) is that of the last push event if one arrived after the last poll
\* started, and otherwise that of the last poll snapshot.
C1_FinalProgress ==
    \A id \in JobIds :
        (cards[id].mounted /\ ProgressBarShown(JobOf(jobs, id)) /\ NoPollInFlight)
        => LET polled == JobOf(jobs, id).progress
               pushed == IF pushSincePoll[id] = Null THEN Null
                         ELSE pushSincePoll[id].event
               latest == IF pushed # Null THEN pushed ELSE polled
           IN  /\ PctOf(latest) # Undef
                  => ShownPercentage(id) = MathRound(PctOf(latest))
               /\ Truthy(MsgOf(latest)) => ShownMessage(id) = MsgOf(latest)

\* C2: when a push event with a percentage was received after the last poll
\* started and a poll response is applied after it, the job shows the pushed
\* percentage, not the polled one.
C2_PushWinsOverStalePoll ==
    \A id \in JobIds :
        (/\ cards[id].mounted
         /\ pushSincePoll[id] # Null
         /\ pushSincePoll[id].polledAfter
         /\ pushSincePoll[id].event.percentage # Undef)
        => ShownPercentage(id) = MathRound(pushSincePoll[id].event.percentage)

C2_StalePollAfterPush ==
    \E id \in JobIds :
        /\ cards[id].mounted
        /\ JobOf(jobs, id).status = "processing"
        /\ pushSincePoll[id] # Null
        /\ pushSincePoll[id].polledAfter
        /\ pushSincePoll[id].event.percentage # Undef
        /\ PctOf(JobOf(jobs, id).progress) # Undef
        /\ MathRound(PctOf(JobOf(jobs, id).progress))
               # MathRound(pushSincePoll[id].event.percentage)

\* C3: a tracked job whose status is completed, failed or cancelled has neither
\* a queue_position nor a progress.
C3_TerminalCleared ==
    \A i \in DOMAIN jobs :
        jobs[i].status \in Terminal
        => jobs[i].queue_position = Undef /\ jobs[i].progress = Null

\* C4: retryJob is called only for a job whose status in jobs.value is failed
\* or cancelled at the time of the call.
C4_RetryOnlyFailedOrCancelled ==
    [][\A id \in JobIds :
          Issued(Cmd("retry", id, "remote"))
          => id \in Tracked /\ JobOf(jobs, id).status \in {"failed", "cancelled"}]_vars

C4_RetryIssued ==
    \E id \in JobIds : Cmd("retry", id, "remote") \in InFlight

\* C5: cancelJob is called only for a job whose status in jobs.value is queued
\* or processing at the time of the call.
C5_CancelOnlyActive ==
    [][\A id \in JobIds :
          Issued(Cmd("cancel", id, "remote"))
          => id \in Tracked /\ JobOf(jobs, id).status \in {"queued", "processing"}]_vars

C5_CancelIssued ==
    \E id \in JobIds : Cmd("cancel", id, "remote") \in InFlight

\* C6: a poll that fails changes nothing in jobs.value, is only logged (no
\* alert), and leaves the interval running.
C6_FailedPollKeepsJobs ==
    [][effect' = LoadFailed
       => /\ jobs' = jobs
          /\ dropped' = {}
          /\ refreshInterval' = refreshInterval
          /\ lifecycle' = lifecycle
          /\ ~isLoading']_vars

C6_PollFailed ==
    effect = LoadFailed /\ jobs # <<>> /\ refreshInterval

\* C7: the tracked jobs are exactly those of the last response received, and
\* no card (and so no push subscription) is left for a job that is not tracked.
C7_TrackedIsSnapshot ==
    /\ jobs = lastResponse
    /\ \A id \in JobIds : cards[id].mounted => id \in Tracked

C7_JobDropped ==
    /\ dropped # {}
    /\ effect = None
    /\ jobs # <<>>
    /\ lifecycle = "mounted"

\* C8: a command the remote system rejects is reported with an alert, and its
\* handler changes neither jobs.value nor the filter, starts no refresh and
\* calls nothing again; a command ends its remote call in no other way than
\* this or by going on to its refresh.
C8_RejectedCommand ==
    [][/\ effect' \in Alerts
          => /\ jobs' = jobs
             /\ selectedFilter' = selectedFilter
             /\ isLoading' = isLoading
             /\ polls' = polls
             /\ BagCardinality(cmds') = BagCardinality(cmds) - 1
             /\ \A c \in CmdRecords : ~Issued(c)
       /\ \A c \in CmdRecords :
             (c.phase = "remote" /\ Left(c))
             => \/ effect' = CatchAlert(c.kind)
                \/ Issued(Cmd(c.kind, c.job, "refresh"))]_vars

C8_CommandRejected ==
    effect \in Alerts /\ jobs # <<>>

C10_DeleteNeedsConfirmation ==
    /\ [](\A id \in JobIds :
             cards[id].mounted => DeleteButtonShown(JobOf(jobs, id)))
    /\ [][/\ \A id \in JobIds :
                Issued(Cmd("delete", id, "remote")) => effect' = Accepted
          /\ effect' = Declined
             => UNCHANGED <<jobs, cmds, polls, isLoading, selectedFilter, cards,
                            lastResponse>>]_vars

C10_DeclinedOnFinishedJob ==
    /\ effect = Declined
    /\ \E id \in JobIds :
          cards[id].mounted /\ JobOf(jobs, id).status = "completed"

\* a listJobs response was applied in the step
PollApplied ==
    /\ effect' = None
    /\ \/ polls' < polls
       \/ \E c \in CmdRecords : c.phase = "refresh" /\ Left(c)

\* C11: a cancel or retry that succeeds remotely makes its handler start
\* refreshJobs (a listJobs request) at once, before the handler ends, and
\* changes nothing in jobs.value itself; jobs.value changes only when a
\* listJobs response is applied, and then to that response.
C11_ForcedRefreshAfterCommand ==
    [][/\ \A id \in JobIds, kind \in {"cancel", "retry"} :
             (Left(Cmd(kind, id, "remote")) /\ effect' \notin Alerts)
             => /\ Issued(Cmd(kind, id, "refresh"))
                /\ isLoading'
                /\ jobs' = jobs
       /\ jobs' # jobs => PollApplied /\ jobs' = lastResponse']_vars

C11_CancelAwaitingRefresh ==
    \E id \in JobIds :
        /\ Cmd("cancel", id, "refresh") \in InFlight
        /\ id \in Tracked
        /\ JobOf(jobs, id).status = "processing"
        /\ isLoading

\* C12: once the component is unmounted no refreshJobs is started by the
\* interval, and jobs.value is written no more, not even by a listJobs
\* request that was in flight at the time.
C12_NothingAfterTeardown ==
    [][lifecycle = "unmounted"
       => /\ polls' <= polls
          /\ refreshInterval' = FALSE
          /\ jobs' = jobs
          /\ lastResponse' = lastResponse]_vars

\* C13: when the retry of a failed job has succeeded and the poll that follows
\* reports the job as queued, the job has no error_message and no progress:
\* none from the poll and none from the push feed of the run that failed.
C13_RetriedJobStartsClean ==
    [][\A id \in JobIds :
          (/\ Left(Cmd("retry", id, "refresh"))
           /\ effect' = None
           /\ id \in Tracked /\ JobOf(jobs, id).status = "failed"
           /\ id \in Ids(jobs') /\ JobOf(jobs', id).status = "queued")
          => /\ JobOf(jobs', id).error_message = UndefStr
             /\ JobOf(jobs', id).progress = Null
             /\ cards'[id].mounted
                => /\ cards'[id].progress = Null
                   /\ progressPercentage(JobOf(jobs', id), cards'[id].progress) = 0]_vars

\* what the card of a job shows of its progress
ViewOf(job, progress) ==
    [percentage |-> progressPercentage(job, progress),
     message |-> currentStepMessage(job, progress),
     stage |-> [k \in DOMAIN steps |-> getStepStatus(job, progress, steps[k])],
     elapsed |-> elapsedTime(job, progress)]

\* C14: a push event for a job whose status is completed, failed or cancelled
\* changes nothing in what is held and shown for the job (percentage, stage,
\* message, elapsed time); no event is taken for a job that is not tracked.
C14_TerminalPushIsNoOp ==
    [][effect' = Pushed
       => \A id \in JobIds :
             /\ cards'[id].mounted => id \in Tracked
             /\ (id \in Tracked /\ JobOf(jobs, id).status \in Terminal)
                => /\ cards'[id] = cards[id]
                   /\ cards[id].mounted
                      => ViewOf(JobOf(jobs', id), cards'[id].progress)
                             = ViewOf(JobOf(jobs, id), cards[id].progress)]_vars

\* C15: a push event changes no field of a job of jobs.value (status,
\* queue_position and the rest): after the event the jobs are still exactly
\* those of the last listJobs response.
C15_PushLeavesRecord ==
    [][effect' = Pushed
       => /\ jobs' = jobs
          /\ lastResponse' = lastResponse
          /\ jobs' = lastResponse'
          /\ selectedFilter' = selectedFilter]_vars

C15_PushedToQueuedJob ==
    /\ effect = Pushed
    /\ \E id \in JobIds :
          /\ id \in Tracked
          /\ JobOf(jobs, id).status = "queued"
          /\ JobOf(jobs, id).queue_position = 1
          /\ cards[id].mounted
          /\ StepOf(cards[id].progress) = "transcribing"

\* C16 as claimed: while a job stays processing, the percentage its card
\* shows never goes down when a poll snapshot or a push event is applied.
C16_PercentageNeverDecreases ==
    [][\A id \in JobIds :
          (/\ effect' = Pushed \/ PollApplied
           /\ id \in Tracked /\ JobOf(jobs, id).status = "processing"
           /\ id \in Ids(jobs') /\ JobOf(jobs', id).status = "processing"
           /\ cards[id].mounted /\ cards'[id].mounted)
          => progressPercentage(JobOf(jobs', id), cards'[id].progress)
                 >= ShownPercentage(id)]_vars

\* C16 as amended: the percentage is shown as reported, downward too. After a
\* push event with a percentage the card shows that percentage, rounded;
\* after a poll, a card without a pushed percentage shows the polled one,
\* rounded, or 0 when the snapshot has none.
C16_PercentageAsReported ==
    [][\A id \in JobIds :
          (cards'[id].mounted /\ id \in Ids(jobs'))
          => LET shown == progressPercentage(JobOf(jobs', id), cards'[id].progress)
                 polled == PctOf(JobOf(jobs', id).progress)
             IN  /\ (/\ effect' = Pushed
                      /\ pushSincePoll'[id] # Null
                      /\ ~pushSincePoll'[id].polledAfter
                      /\ pushSincePoll'[id].event.percentage # Undef)
                     => shown = MathRound(pushSincePoll'[id].event.percentage)
                 /\ (PollApplied /\ PctOf(cards'[id].progress) = Undef)
                     => shown = IF polled # Undef THEN MathRound(polled) ELSE 0]_vars

C16_PushBelowPolled ==
    /\ effect = Pushed
    /\ \E id \in JobIds :
          /\ id \in Tracked /\ cards[id].mounted
          /\ JobOf(jobs, id).status = "processing"
          /\ PctOf(JobOf(jobs, id).progress) # Undef
          /\ ShownPercentage(id) < MathRound(PctOf(JobOf(jobs, id).progress))

\* the classification of C17, by ordinals in the catalog
Ordinal(key) == CHOOSE k \in DOMAIN steps : steps[k] = key
Known(key) == \E k \in DOMAIN steps : steps[k] = key
Classify(current, k) ==
    IF ~Known(current) THEN "pending"
    ELSE IF k < Ordinal(current) THEN "completed"
    ELSE IF k = Ordinal(current) THEN "active"
    ELSE "pending"
ReportedSteps == {steps[k] : k \in DOMAIN steps} \cup {UndefStr, "", "uploading"}
Reporting(step) ==
    [status |-> "processing", queue_position |-> 0, error_message |-> UndefStr,
     progress |-> [step |-> step, percentage |-> Undef, message |-> "",
                   elapsed_seconds |-> Undef]]

\* C17: getStepStatus classifies a step as completed when it comes before the
\* current step in the catalog, active when it is the current step and pending
\* when it comes after; when the current step is not reported or is not in
\* the catalog every step is pending. With a known current step exactly one
\* step is active and the completed steps are those before it.
C17_StageClassification ==
    /\ \A id \in JobIds :
          (cards[id].mounted /\ id \in Tracked)
          => LET job == JobOf(jobs, id)
                 progress == cards[id].progress
                 current == IF Truthy(StepOf(progress)) THEN StepOf(progress)
                            ELSE StepOf(job.progress)
                 status(k) == getStepStatus(job, progress, steps[k])
             IN  /\ \A k \in DOMAIN steps : status(k) = Classify(current, k)
                 /\ Known(current)
                    => /\ Cardinality({k \in DOMAIN steps : status(k) = "active"}) = 1
                       /\ {k \in DOMAIN steps : status(k) = "completed"}
                              = 1 .. (Ordinal(current) - 1)
    /\ \A current \in ReportedSteps, k \in DOMAIN steps :
          getStepStatus(Reporting(current), Null, steps[k]) = Classify(current, k)

C17_TranscribingIsActive ==
    \E id \in JobIds :
        /\ cards[id].mounted /\ id \in Tracked
        /\ StepIndicatorsShown(JobOf(jobs, id))
        /\ StepOf(JobOf(jobs, id).progress) = "separating"
        /\ getStepStatus(JobOf(jobs, id), cards[id].progress, "separating") = "completed"
        /\ getStepStatus(JobOf(jobs, id), cards[id].progress, "transcribing") = "active"
        /\ getStepStatus(JobOf(jobs, id), cards[id].progress, "pitching") = "pending"

\* C18: a push subscription (one per mounted card, the cards being keyed by
\* job_id) exists only for a tracked job whose status is queued or processing.
C18_SubscriptionsOnlyForActive ==
    \A id \in JobIds :
        cards[id].mounted
        => /\ id \in Tracked
           /\ JobOf(jobs, id).status \in {"queued", "processing"}

\* C19: when the poll snapshot or the push event applied to a processing job
\* carries no percentage (no elapsed_seconds), the percentage (the elapsed
\* time) the job shows stays what it was.
C19_AbsentFieldKeepsValue ==
    [][\A id \in JobIds :
          (/\ id \in Tracked /\ JobOf(jobs, id).status = "processing"
           /\ id \in Ids(jobs') /\ JobOf(jobs', id).status = "processing"
           /\ cards[id].mounted /\ cards'[id].mounted)
          => LET before == ViewOf(JobOf(jobs, id), cards[id].progress)
                 after == ViewOf(JobOf(jobs', id), cards'[id].progress)
                 polled == JobOf(jobs', id).progress
                 pushed == pushSincePoll'[id]
                 taken == /\ effect' = Pushed
                          /\ pushed # Null
                          /\ ~pushed.polledAfter
             IN  /\ (PollApplied /\ PctOf(polled) = Undef)
                     => after.percentage = before.percentage
                 /\ (PollApplied /\ ElapsedOf(polled) = Undef)
                     => after.elapsed = before.elapsed
                 /\ (taken /\ pushed.event.percentage = Undef)
                     => after.percentage = before.percentage
                 /\ (taken /\ pushed.event.elapsed_seconds = Undef)
                     => after.elapsed = before.elapsed]_vars

\* C20: when the refreshJobs a handler awaits after its successful command
\* fails, the failure is only logged: no alert is raised, the handler goes on
\* (handleRetry selects the "Active" filter, the others leave the filter) and
\* ends, and jobs.value is left as it was. A handler that awaits its refresh
\* never ends with an alert.
C20_FailedForcedRefresh ==
    [][\A c \in CmdRecords :
          (c.phase = "refresh" /\ Left(c))
          => /\ effect' \in {None, LoadFailed}
             /\ \A d \in CmdRecords : ~Issued(d)
             /\ effect' = LoadFailed
                => /\ jobs' = jobs
                   /\ lastResponse' = lastResponse
                   /\ ~isLoading'
                   /\ selectedFilter' = IF c.kind = "retry" THEN "processing"
                                         ELSE selectedFilter]_vars

C20_RetryRefreshFailed ==
    /\ effect = LoadFailed
    /\ selectedFilter = "processing"
    /\ cmds = EmptyBag
    /\ \E id \in JobIds :
          /\ id \in Tracked
          /\ JobOf(jobs, id).status = "failed"
          /\ ~cards[id].mounted

\* the response of the i-th request in flight is applied in the step
ResponseApplied(i) ==
    /\ PollApplied
    /\ requests' = Applied(requests, i)
    /\ IF requests[i].request = PollRequest THEN polls' < polls
       ELSE Left(requests[i].request)

\* C21: with several listJobs requests in flight, the response of a request
\* does not change jobs.value once the response of a request started after it
\* has been assigned: jobs.value ends as the response of the request started
\* last.
C21_NewestResponseWins ==
    [][\A i \in DOMAIN requests :
          (ResponseApplied(i) /\ requests[i].overtaken) => jobs' = jobs]_vars

\* a job whose status is none of the five the page knows, before a job of
\* status s
WithUnknown(s) ==
    <<[job_id |-> "X", status |-> "paused"], [job_id |-> "Y", status |-> s]>>

\* what C22 says of a list of jobs
CountsAgree(list) ==
    LET shown == statusFilters(list)
        active == {i \in DOMAIN list : list[i].status \in {"queued", "processing"}}
    IN  /\ \A f \in FilterValues : shown[f] = Len(filteredJobs(list, f))
        /\ shown.processing = Cardinality(active)
        /\ (\A i \in DOMAIN list : list[i].status \in Statuses)
           => shown.processing + shown.completed + shown.failed + shown.cancelled
                  = shown.all

\* C22: the count of each status filter is the number of jobs listed under
\* that filter; "Active" counts the queued and the processing jobs; when
\* every job has one of the five statuses the counts of the four status
\* filters add up to the count of "All".
C22_FilterCounts ==
    /\ CountsAgree(jobs)
    /\ Len(filteredJobs(jobs, selectedFilter)) = statusFilters(jobs)[selectedFilter]
    /\ lifecycle = "mounted"
       => Cardinality({id \in JobIds : cards[id].mounted})
              = statusFilters(jobs)[selectedFilter]
    /\ \A s \in Statuses \cup {"paused"} : CountsAgree(WithUnknown(s))

C22_QueuedAndFinishedListed ==
    /\ Len(jobs) = 2
    /\ selectedFilter = "processing"
    /\ statusFilters(jobs).processing = 1
    /\ statusFilters(jobs).completed = 1
    /\ \E id \in JobIds : cards[id].mounted /\ JobOf(jobs, id).status = "queued"

\* C23: showNotification and notifyJobComplete create a Notification only
\* when a requestNotificationPermission call has returned true before and
\* Notification.permission is 'granted' at the call; when the permission was
\* never requested, was denied, is not supported or was revoked since, they
\* return null.
C23_NotificationNeedsGrant ==
    [][last'.call \in {"showNotification", "notifyJobComplete"}
       => /\ last'.result # Null
             => grantedBefore /\ supported /\ permission = "granted"
          /\ (~grantedBefore \/ ~supported \/ permission # "granted")
             => last'.result = Null
          /\ UNCHANGED <<supported, permission, permissionGranted, prompts,
                         grantedBefore>>]_vars

C23_RevokedReturnsNull ==
    /\ last = Returns("notifyJobComplete", Null)
    /\ grantedBefore
    /\ permissionGranted
    /\ permission = "denied"
====
